---- MODULE Spec2Model ----
(***************************************************************************)
(* A model of roseingrave's _piece.py: the hyperlink codec, the Source and  *)
(* Piece classes (construction, combine), the sheet builders create_sheet   *)
(* and create_master_sheet, and the exporters export_sheet and              *)
(* export_master_sheet.                                                     *)
(*                                                                         *)
(* Python values are tagged records, so that None, a str and an int are     *)
(* always distinguishable and comparable:                                   *)
(*   PyNone, PyStr(<<chars>>), PyInt(n).                                    *)
(* A str is a sequence of one-character strings.  A list is a sequence.    *)
(* A dict is a sequence of <<key, value>> pairs in insertion order.        *)
(***************************************************************************)
EXTENDS Integers, Sequences, FiniteSets, TLC

VARIABLES
    codec,      \* the hyperlink codec's input, the formula and the parse
    heap,       \* the Source objects: object id -> its attributes
    pieces,     \* the Piece objects: piece id -> its attributes, or NoPiece
    template,   \* the template settings (a dict shared by all pieces)
    sheet,      \* the worksheet: its title and its stored rows
    ret         \* the outcome of the last call: return value or exception

vars == <<codec, heap, pieces, template, sheet, ret>>

----------------------------------------------------------------------------
(* Python values *)

PyNone == [t |-> "None"]
PyStr(s) == [t |-> "str", s |-> s]
PyInt(n) == [t |-> "int", n |-> n]

IsNone(v) == v.t = "None"
IsStr(v) == v.t = "str"
IsInt(v) == v.t = "int"

EmptyStr == PyStr(<<>>)

RECURSIVE Concat(_)
\* The concatenation of a sequence of sequences.
Concat(ss) == IF ss = <<>> THEN <<>> ELSE Head(ss) \o Concat(Tail(ss))

\* All sequences over S of length 0..n.
SeqsUpTo(S, n) == UNION {[1..k -> S] : k \in 0..n}

MaxOf(S) == CHOOSE x \in S : \A y \in S : y <= x

Digits == <<"0", "1", "2", "3", "4", "5", "6", "7", "8", "9">>

RECURSIVE DecimalDigits(_)
DecimalDigits(n) ==
    IF n < 10 THEN <<Digits[n + 1]>>
    ELSE DecimalDigits(n \div 10) \o <<Digits[(n % 10) + 1]>>

\* str(n) of an int n, as characters.
str_int(n) == IF n < 0 THEN <<"-">> \o DecimalDigits(-n) ELSE DecimalDigits(n)

----------------------------------------------------------------------------
(* The hyperlink codec: _hyperlink and _parse_hyperlink *)

QUOTE == "\""
BACKSLASH == "\\"
NEWLINE == "\n"

\* '=HYPERLINK("'
HyperlinkOpen == <<"=", "H", "Y", "P", "E", "R", "L", "I", "N", "K", "(", QUOTE>>
\* '", "'
HyperlinkSep == <<QUOTE, ",", " ", QUOTE>>
\* '")'
HyperlinkClose == <<QUOTE, ")">>

RECURSIVE EscapeQuotes(_)
\* text.replace('"', '\\"')
EscapeQuotes(s) ==
    IF s = <<>> THEN <<>>
    ELSE IF Head(s) = QUOTE
         THEN <<BACKSLASH, QUOTE>> \o EscapeQuotes(Tail(s))
         ELSE <<Head(s)>> \o EscapeQuotes(Tail(s))

RECURSIVE UnescapeQuotes(_)
\* text.replace('\\"', '"'): leftmost non-overlapping occurrences
UnescapeQuotes(s) ==
    IF s = <<>> THEN <<>>
    ELSE IF Len(s) >= 2 /\ s[1] = BACKSLASH /\ s[2] = QUOTE
         THEN <<QUOTE>> \o UnescapeQuotes(SubSeq(s, 3, Len(s)))
         ELSE <<Head(s)>> \o UnescapeQuotes(Tail(s))

\* _hyperlink(text, link): text is a str, link a str or None.
_hyperlink(text, link) ==
    IF IsNone(link) THEN text
    ELSE PyStr(HyperlinkOpen \o link.s \o HyperlinkSep
               \o EscapeQuotes(text.s) \o HyperlinkClose)

\* HYPERLINK_RE.match(s) for the pattern =HYPERLINK\("(.+)", "(.+)"\):
\* anchored at the start only, '.' is any character but a newline, both
\* groups greedy (the first group is extended as far as a match allows,
\* then the second).  The result is <<>> (no match) or <<group1, group2>>.
HYPERLINK_RE_match(s) ==
    LET n == Len(s)
        o == Len(HyperlinkOpen)
        Dots(i, j) == \A k \in i..j : s[k] # NEWLINE
        \* group 1 is s[o+1..i], group 2 is s[i+5..j]
        Ok(i, j) ==
            /\ i >= o + 1
            /\ j >= i + 5
            /\ j + 2 <= n
            /\ SubSeq(s, 1, o) = HyperlinkOpen
            /\ Dots(o + 1, i)
            /\ SubSeq(s, i + 1, i + 4) = HyperlinkSep
            /\ Dots(i + 5, j)
            /\ SubSeq(s, j + 1, j + 2) = HyperlinkClose
        M == {m \in (1..n) \X (1..n) : Ok(m[1], m[2])}
    IN  IF M = {} THEN <<>>
        ELSE LET i == MaxOf({m[1] : m \in M})
                 j == MaxOf({m[2] : m \in {x \in M : x[1] = i}})
             IN  <<SubSeq(s, o + 1, i), SubSeq(s, i + 5, j)>>

\* _parse_hyperlink(hyperlink): the pair (link, text), or (None, None).
_parse_hyperlink(hyperlink) ==
    LET match == HYPERLINK_RE_match(hyperlink.s)
    IN  IF match = <<>> THEN <<PyNone, PyNone>>
        ELSE <<PyStr(match[1]), PyStr(UnescapeQuotes(match[2]))>>

----------------------------------------------------------------------------
(* The codec's specification: the inputs are drawn in Init *)

MaxTextLen == 3
MaxLinkLen == 1

CodecChars == {"a", QUOTE, BACKSLASH, ",", " ", ")", NEWLINE}

CodecTexts == {PyStr(s) : s \in SeqsUpTo(CodecChars, MaxTextLen)}
CodecLinks == {PyNone} \cup {PyStr(s) : s \in SeqsUpTo(CodecChars, MaxLinkLen)}

NoCodec == [pc |-> "off"]
NoSheet == [kind |-> "none", title |-> EmptyStr, values |-> <<>>]
NoTemplate == [t |-> "None"]
NoCall == [op |-> "none"]

CodecInit ==
    /\ codec \in {[pc |-> "input", text |-> x, link |-> l,
                   formula |-> PyNone, parsed |-> <<>>] :
                     x \in CodecTexts, l \in CodecLinks}
    /\ heap = <<>>
    /\ pieces = <<>>
    /\ template = NoTemplate
    /\ sheet = NoSheet
    /\ ret = NoCall

\* formula = _hyperlink(text, link)
CodecHyperlink ==
    /\ codec.pc = "input"
    /\ codec' = [codec EXCEPT !.pc = "encoded",
                              !.formula = _hyperlink(codec.text, codec.link)]
    /\ UNCHANGED <<heap, pieces, template, sheet, ret>>

\* parsed = _parse_hyperlink(formula)
CodecParseHyperlink ==
    /\ codec.pc = "encoded"
    /\ codec' = [codec EXCEPT !.pc = "parsed",
                              !.parsed = _parse_hyperlink(codec.formula)]
    /\ UNCHANGED <<heap, pieces, template, sheet, ret>>

CodecNext == CodecHyperlink \/ CodecParseHyperlink

SpecCodec == CodecInit /\ [][CodecNext]_vars

HasNewline(s) == \E k \in 1..Len(s) : s[k] = NEWLINE

\* C1: for every present link and every text without a newline,
\* _parse_hyperlink(_hyperlink(text, link)) returns exactly (link, text).
C1_RoundTrip ==
    (codec.pc = "parsed" /\ ~IsNone(codec.link) /\ ~HasNewline(codec.text.s))
        => codec.parsed = <<codec.link, codec.text>>

----------------------------------------------------------------------------
(* _max, Source *)

\* The mutant of _max: a present value loses against an absent one.
_max_absent_wins(a, b) ==
    IF IsNone(a) \/ IsNone(b) THEN PyNone
    ELSE IF a.n >= b.n THEN a ELSE b

\* _max(a, b): the max of two possibly-None values.
_max(a, b) ==
    IF IsNone(a) /\ IsNone(b) THEN PyNone
    ELSE IF IsNone(a) THEN b
    ELSE IF IsNone(b) THEN a
    ELSE IF a.n >= b.n THEN a ELSE b

\* A dict with str keys given as a function: `key in kwargs`, kwargs.get.
HasKey(kwargs, key) == key \in DOMAIN kwargs
Get(kwargs, key, default) == IF HasKey(kwargs, key) THEN kwargs[key] ELSE default

\* The outcome of a call: a return value, or a raised exception with its
\* args tuple.
Return(v) == [exc |-> "none", value |-> v]
Raise(type, args) == [exc |-> type, args |-> args]
Raised(r) == r.exc # "none"

\* The characters of a key of the input records.
KeyChars(key) ==
    CASE key = "name" -> <<"n", "a", "m", "e">>
      [] key = "link" -> <<"l", "i", "n", "k">>
      [] key = "title" -> <<"t", "i", "t", "l", "e">>
      [] key = "sources" -> <<"s", "o", "u", "r", "c", "e", "s">>

\* f'key "{key}" not found'
KeyNotFound(key) ==
    PyStr(<<"k", "e", "y", " ", "\"">> \o KeyChars(key)
          \o <<"\"", " ", "n", "o", "t", " ", "f", "o", "u", "n", "d">>)

\* 'bar count must be positive'
BarCountNotPositive ==
    PyStr(<<"b", "a", "r", " ", "c", "o", "u", "n", "t", " ", "m", "u", "s",
          "t", " ", "b", "e", " ", "p", "o", "s", "i", "t", "i", "v", "e">>)

\* Source.__init__(kwargs): the new object's attributes, or ValueError.
Source_init(kwargs) ==
    IF ~HasKey(kwargs, "name")
    THEN Raise("ValueError", <<KeyNotFound("name")>>)
    ELSE IF ~HasKey(kwargs, "link")
    THEN Raise("ValueError", <<KeyNotFound("link")>>)
    ELSE LET bar_count == Get(kwargs, "barCount", PyNone)
         IN  IF ~IsNone(bar_count) /\ bar_count.n <= 0
             THEN Raise("ValueError", <<BarCountNotPositive>>)
             ELSE Return([name |-> kwargs["name"], link |-> kwargs["link"],
                          bar_count |-> bar_count])

\* Source.combine(self, other) on the heap h: self and other are object ids.
Source_combine(h, self, other) ==
    [h EXCEPT ![self].bar_count = _max(h[self].bar_count, h[other].bar_count)]

\* Source.hyperlink()
Source_hyperlink(src) == _hyperlink(src.name, src.link)

----------------------------------------------------------------------------
(* Piece: construction, _add_source, combine *)

\* The mutant of Piece._add_source: the source is added as a new entry even
\* when its name is present.
Piece_add_source_always_adds(st, source) ==
    [heap |-> st.heap,
     piece |-> [st.piece EXCEPT
                  !.sources = Append(@, source),
                  !.bar_count = _max(@, st.heap[source].bar_count)]]

\* Piece._add_source(source) on st = [heap, piece]; source is an object id.
\* self._sources is a dict keyed by name: piece.sources lists its values
\* (object ids) in insertion order, the key of each being the object's
\* name, which never changes.
Piece_add_source(st, source) ==
    LET h == st.heap
        self == st.piece
        name == h[source].name
        found == {k \in 1..Len(self.sources) : h[self.sources[k]].name = name}
        h2 == IF found # {}
              THEN Source_combine(h, self.sources[CHOOSE k \in found : TRUE], source)
              ELSE h
        sources2 == IF found # {} THEN self.sources
                    ELSE Append(self.sources, source)
    IN  [heap |-> h2,
         piece |-> [self EXCEPT
                      !.sources = sources2,
                      !.bar_count = _max(self.bar_count, h2[source].bar_count)]]

\* f'source {i}: '
SourceTag(i) == <<"s", "o", "u", "r", "c", "e", " ">> \o str_int(i) \o <<":", " ">>

\* 'tuple index out of range'
TupleIndexOutOfRange ==
    PyStr(<<"t", "u", "p", "l", "e", " ", "i", "n", "d", "e", "x", " ", "o",
          "u", "t", " ", "o", "f", " ", "r", "a", "n", "g", "e">>)

\* The except clause of Piece.__init__:
\*     ex.args = (f'source {i}: ' + ex.args[0],) + ex.args[1]
\* ex.args[1] is evaluated on the args tuple of the ValueError.
Piece_init_reraise(i, ex) ==
    IF Len(ex.args) < 2
    THEN Raise("IndexError", <<TupleIndexOutOfRange>>)
    ELSE Raise("ValueError",
               <<PyStr(SourceTag(i) \o ex.args[1].s)>> \o ex.args[2])

RECURSIVE Piece_init_sources(_, _, _)
\* The loop of Piece.__init__ over kwargs['sources'] from index i on.
Piece_init_sources(st, sources, i) ==
    IF i > Len(sources) THEN Return(st)
    ELSE LET r == Source_init(sources[i])
         IN  IF Raised(r) THEN Piece_init_reraise(i - 1, r)
             ELSE LET h2 == Append(st.heap, r.value)
                      st2 == Piece_add_source([st EXCEPT !.heap = h2], Len(h2))
                      \* a source that was combined into an existing one
                      \* is referenced no longer: the object is dropped
                      st3 == IF Len(st2.piece.sources) = Len(st.piece.sources)
                             THEN [st2 EXCEPT !.heap = SubSeq(@, 1, Len(h2) - 1)]
                             ELSE st2
                  IN  Piece_init_sources(st3, sources, i + 1)

\* The rows Piece.__init__ stores in self._values: [before_bars, after_bars].
Piece_init_values(tmpl) ==
    << [k \in 1..Len(tmpl.metaDataFields) |-> <<tmpl.metaDataFields[k][2]>>]
          \o << <<>> >>,
       << <<>>, <<tmpl.commentFields.comments>> >> >>

\* Piece.__init__(kwargs, template) on the heap h: the new heap and the
\* piece's attributes, or the exception raised.
Piece_init(h, kwargs, tmpl) ==
    IF ~HasKey(kwargs, "title")
    THEN Raise("ValueError", <<KeyNotFound("title")>>)
    ELSE IF ~HasKey(kwargs, "sources")
    THEN Raise("ValueError", <<KeyNotFound("sources")>>)
    ELSE LET self == [t |-> "Piece",
                      name |-> kwargs["title"],
                      link |-> Get(kwargs, "link", PyNone),
                      sources |-> <<>>,
                      bar_count |-> Get(kwargs, "barCount", PyNone),
                      values |-> <<>>]
             r == Piece_init_sources([heap |-> h, piece |-> self],
                                     kwargs["sources"], 1)
         IN  IF Raised(r) THEN r
             ELSE Return([r.value EXCEPT
                            !.piece.values = Piece_init_values(tmpl)])

\* Piece.final_bar_count
Piece_final_bar_count(self, tmpl) ==
    IF IsNone(self.bar_count) THEN tmpl.values.defaultBarCount
    ELSE self.bar_count

RECURSIVE Piece_combine_sources(_, _)
\* The loop of Piece.combine over other.sources (a list made at the call).
Piece_combine_sources(st, sources) ==
    IF sources = <<>> THEN st
    ELSE Piece_combine_sources(Piece_add_source(st, Head(sources)), Tail(sources))

\* Piece.combine(self, other) on the heap h.
Piece_combine(h, self, other) ==
    LET linked == IF IsNone(self.link) THEN [self EXCEPT !.link = other.link]
                  ELSE self
    IN  Piece_combine_sources([heap |-> h, piece |-> linked], other.sources)

----------------------------------------------------------------------------
(* Dicts with arbitrary keys: sequences of <<key, value>> pairs in         *)
(* insertion order.                                                        *)

DictHas(d, key) == \E k \in 1..Len(d) : d[k][1] = key

\* d[key]
DictGet(d, key) == d[CHOOSE k \in 1..Len(d) : d[k][1] = key][2]

\* d[key] = value: an existing key keeps its place.
DictSet(d, key, value) ==
    IF DictHas(d, key)
    THEN [k \in 1..Len(d) |-> IF d[k][1] = key THEN <<key, value>> ELSE d[k]]
    ELSE Append(d, <<key, value>>)

DictKeys(d) == [k \in 1..Len(d) |-> d[k][1]]

RECURSIVE DictUpdate(_, _)
\* {**d, **e}
DictUpdate(d, e) ==
    IF e = <<>> THEN d
    ELSE DictUpdate(DictSet(d, Head(e)[1], Head(e)[2]), Tail(e))

\* The dict literal {k1: v1, k2: v2, ...} of a sequence of pairs.
DictOf(pairs) == DictUpdate(<<>>, pairs)

\* A dict as a mapping: what dict equality compares.
AsMap(d) == {<<d[k][1], d[k][2]>> : k \in 1..Len(d)}

KeyBars == PyStr(<<"b", "a", "r", "s">>)
KeyComments == PyStr(<<"c", "o", "m", "m", "e", "n", "t", "s">>)
KeyName == PyStr(<<"n", "a", "m", "e">>)
KeyLink == PyStr(<<"l", "i", "n", "k">>)
KeyVolunteers == PyStr(<<"v", "o", "l", "u", "n", "t", "e", "e", "r", "s">>)
KeySummary == PyStr(<<"s", "u", "m", "m", "a", "r", "y">>)
LabelVolunteer == PyStr(<<"V", "o", "l", "u", "n", "t", "e", "e", "r">>)

\* tuple(template['metaDataFields'].keys())
TemplateHeaders(tmpl) ==
    [k \in 1..Len(tmpl.metaDataFields) |-> tmpl.metaDataFields[k][1]]

----------------------------------------------------------------------------
(* The worksheet *)

\* sheet.get_values(): the stored rows, each filled with '' to the width of
\* the widest row.
GetValues(sh) ==
    LET rows == sh.values
        width == IF rows = <<>> THEN 0
                 ELSE MaxOf({Len(rows[r]) : r \in 1..Len(rows)})
    IN  [r \in 1..Len(rows) |->
            [c \in 1..width |-> IF c <= Len(rows[r]) THEN rows[r][c]
                                ELSE EmptyStr]]

----------------------------------------------------------------------------
(* Piece.create_sheet and Piece.create_master_sheet *)

\* len(range(n)): a range with a negative end is empty.
RangeLen(n) == IF n > 0 THEN n ELSE 0

\* 'list index out of range'
ListIndexOutOfRange ==
    PyStr(<<"l", "i", "s", "t", " ", "i", "n", "d", "e", "x", " ", "o", "u",
          "t", " ", "o", "f", " ", "r", "a", "n", "g", "e">>)

\* [[i + 1] for i in range(bar_count)]
BarsSection(bar_count) == [i \in 1..RangeLen(bar_count) |-> <<PyInt(i)>>]

\* The rows Piece.create_sheet puts on the sheet.
Piece_create_sheet_values(h, self, tmpl) ==
    LET row1 == <<_hyperlink(self.name, self.link)>>
                  \o [k \in 1..Len(self.sources) |->
                         Source_hyperlink(h[self.sources[k]])]
                  \o <<tmpl.commentFields.notes>>
        bar_count == Piece_final_bar_count(self, tmpl).n
    IN  <<row1>> \o self.values[1] \o BarsSection(bar_count) \o self.values[2]

\* The mutant of Piece_create_sheet_offsets: the blank row stored with the
\* header rows is not counted.
Piece_create_sheet_offsets_no_blank(h, self, tmpl) ==
    LET bar_count == Piece_final_bar_count(self, tmpl).n
        notes_col == Len(Piece_create_sheet_values(h, self, tmpl)[1])
        blank_row1 == Len(self.values[1])
        blank_row2 == blank_row1 + bar_count + 1
    IN  [notes_col |-> notes_col, blank_row1 |-> blank_row1,
         blank_row2 |-> blank_row2, comments_row |-> blank_row2 + 1]

\* The offsets Piece.create_sheet hands to _format_sheet.
Piece_create_sheet_offsets(h, self, tmpl) ==
    LET bar_count == Piece_final_bar_count(self, tmpl).n
        notes_col == Len(Piece_create_sheet_values(h, self, tmpl)[1])
        blank_row1 == 1 + Len(self.values[1])
        blank_row2 == blank_row1 + bar_count + 1
    IN  [notes_col |-> notes_col, blank_row1 |-> blank_row1,
         blank_row2 |-> blank_row2, comments_row |-> blank_row2 + 1]

\* values[row].append(cell), row counted from 0, a negative row from the
\* end of the list.  out is the outcome of the statements before this one:
\* the values they have built, and the exception when one of them has
\* raised, after which this one does not run.  The result is the new
\* values, or IndexError with the values as they are.
AppendAt(out, row, cell) ==
    IF Raised(out) THEN out
    ELSE LET values == out.value
             idx == IF row < 0 THEN row + Len(values) ELSE row
         IN  IF idx < 0 \/ idx >= Len(values)
             THEN [value |-> values] @@ Raise("IndexError", <<ListIndexOutOfRange>>)
             ELSE Return([values EXCEPT ![idx + 1] = Append(@, cell)])

RECURSIVE AppendEach(_, _, _)
\* for row, key in rows_iter: values[row].append(cells[key])
AppendEach(out, rows_iter, cells) ==
    IF rows_iter = <<>> THEN out
    ELSE AppendEach(AppendAt(out, Head(rows_iter)[1],
                             DictGet(cells, Head(rows_iter)[2])),
                    Tail(rows_iter), cells)

RECURSIVE JoinLines(_)
\* '\n'.join(lines)
JoinLines(lines) ==
    IF lines = <<>> THEN <<>>
    ELSE IF Len(lines) = 1 THEN lines[1]
    ELSE lines[1] \o <<NEWLINE>> \o JoinLines(Tail(lines))

\* note_str(notes) of Piece.create_master_sheet
note_str(notes) ==
    PyStr(JoinLines([k \in 1..Len(notes) |->
                       notes[k][1].s \o <<":", " ">> \o notes[k][2].s]))

RECURSIVE AppendEachNote(_, _, _)
\* for row, key in rows_iter: values[row].append(note_str(notes[key]))
AppendEachNote(out, rows_iter, notes) ==
    IF rows_iter = <<>> THEN out
    ELSE AppendEachNote(AppendAt(out, Head(rows_iter)[1],
                                 note_str(DictGet(notes, Head(rows_iter)[2]))),
                        Tail(rows_iter), notes)

\* The rows of the master sheet that do not depend on piece_data.
MasterLayout(self, tmpl) ==
    LET bar_count == Piece_final_bar_count(self, tmpl).n
        headers == TemplateHeaders(tmpl)
        headers_start == 2
        blank_row1 == 2 + Len(headers) + 1
        blank_row2 == blank_row1 + bar_count + 1
        bars_start == blank_row1
    IN  [bar_count |-> bar_count,
         headers_iter |-> [i \in 1..Len(headers) |->
                             <<headers_start + (i - 1), headers[i]>>],
         bars_iter |-> [i \in 1..RangeLen(bar_count) |->
                          <<bars_start + (i - 1), PyStr(str_int(i))>>],
         blank_row1 |-> blank_row1,
         blank_row2 |-> blank_row2,
         comments_row |-> blank_row2 + 1]

\* add_column(email, volunteer) of Piece.create_master_sheet: the new
\* values, or IndexError with the values as the appends made so far have
\* left them.
MasterAddColumn(out, lay, email, volunteer) ==
    AppendAt(AppendEach(AppendEach(AppendAt(AppendAt(out, 0, EmptyStr), 1, email),
                                   lay.headers_iter, volunteer),
                        lay.bars_iter, DictGet(volunteer, KeyBars)),
             lay.comments_row - 1, DictGet(volunteer, KeyComments))

RECURSIVE MasterAddVolunteers(_, _, _)
\* for email, volunteer in source_data['volunteers'].items(): add_column
MasterAddVolunteers(out, lay, volunteers) ==
    IF volunteers = <<>> THEN out
    ELSE MasterAddVolunteers(MasterAddColumn(out, lay, Head(volunteers)[1],
                                             Head(volunteers)[2]),
                             lay, Tail(volunteers))

\* values[0][start_col] = source.hyperlink()
SetSourceLink(out, start_col, link) ==
    IF Raised(out) THEN out
    ELSE Return([out.value EXCEPT ![1][start_col + 1] = link])

RECURSIVE MasterAddSources(_, _, _, _, _, _, _)
\* The loop of Piece.create_master_sheet over self._sources from the k-th
\* source on; st = [out, col, source_cols], out the outcome so far.
MasterAddSources(st, h, self, tmpl, lay, sources, k) ==
    IF k > Len(self.sources) THEN st
    ELSE LET source == h[self.sources[k]]
             source_data == DictGet(sources, source.name)
             volunteers == DictGet(source_data, KeyVolunteers)
         IN  MasterAddSources(
                 [out |-> SetSourceLink(
                              MasterAddColumn(
                                  MasterAddVolunteers(st.out, lay, volunteers),
                                  lay, tmpl.commentFields.summary,
                                  DictGet(source_data, KeySummary)),
                              st.col - 1, Source_hyperlink(source)),
                  col |-> st.col + Len(volunteers) + 1,
                  source_cols |-> Append(st.source_cols, st.col)],
                 h, self, tmpl, lay, sources, k + 1)

\* The end of Piece.create_master_sheet: st is the loop's outcome and r
\* the outcome after the notes column.  The rows of self._values are the
\* very lists that were appended to, also when the call ends in an
\* exception.
MasterResult(self, lay, st, r) ==
    LET nb == Len(self.values[1])
        na == Len(self.values[2])
        piece == [self EXCEPT !.values =
                    << SubSeq(r.value, 3, 2 + nb),
                       SubSeq(r.value, Len(r.value) - na + 1, Len(r.value)) >>]
    IN  IF Raised(r)
        THEN [exc |-> r.exc, args |-> r.args, piece |-> piece]
        ELSE [exc |-> "none",
              values |-> r.value,
              offsets |-> [notes_col |-> st.col, blank_row1 |-> lay.blank_row1,
                           blank_row2 |-> lay.blank_row2,
                           comments_row |-> lay.comments_row,
                           source_cols |-> st.source_cols],
              piece |-> piece]

\* The notes column of Piece.create_master_sheet.
MasterAddNotes(self, tmpl, lay, st, notes) ==
    MasterResult(self, lay, st,
        AppendEachNote(
            AppendEachNote(AppendAt(st.out, 0, tmpl.commentFields.notes),
                           lay.headers_iter, notes),
            lay.bars_iter, DictGet(notes, KeyBars)))

\* The sources' columns of Piece.create_master_sheet.
MasterBuild(h, self, tmpl, lay, piece_data) ==
    MasterAddNotes(self, tmpl, lay,
        MasterAddSources(
            [out |-> Return(<< <<_hyperlink(self.name, self.link)>>,
                               <<LabelVolunteer>> >>
                            \o self.values[1] \o BarsSection(lay.bar_count)
                            \o self.values[2]),
             col |-> 2, source_cols |-> <<>>],
            h, self, tmpl, lay, piece_data.sources, 1),
        piece_data.notes)

\* Piece.create_master_sheet(spreadsheet, piece_data): the rows put on the
\* sheet, the offsets handed to _format_sheet, and the piece afterwards.
Piece_create_master_sheet(h, self, tmpl, piece_data) ==
    MasterBuild(h, self, tmpl, MasterLayout(self, tmpl), piece_data)

----------------------------------------------------------------------------
(* Piece.export_sheet and Piece.export_master_sheet *)

Letters == <<"A", "B", "C", "D", "E", "F", "G", "H", "I", "J", "K", "L", "M",
             "N", "O", "P", "Q", "R", "S", "T", "U", "V", "W", "X", "Y", "Z">>

RECURSIVE ColumnLetters(_)
\* rowcol_to_a1(1, col)[:-1]: the letters of the 1-based column col.
ColumnLetters(col) ==
    IF col <= 0 THEN <<>>
    ELSE ColumnLetters((col - 1) \div 26) \o <<Letters[((col - 1) % 26) + 1]>>

\* The message of the export's _error for the 0-based column col.
InvalidHyperlinkMessage(title, col) ==
    PyStr(<<"s", "h", "e", "e", "t", " ", "\"">> \o title.s
          \o <<"\"", ":", " ", "c", "o", "l", "u", "m", "n", " ">>
          \o ColumnLetters(col + 1)
          \o <<" ", "d", "o", "e", "s", "n", "'", "t", " ", "h", "a", "v",
             "e", " ", "a", " ", "v", "a", "l", "i", "d", " ", "h", "y",
             "p", "e", "r", "l", "i", "n", "k">>)

\* error(msg, ERROR_RETURN) of _shared: the message is logged and
\* ERROR_RETURN = (False, None) is returned.
error(msg) == [exc |-> "none", value |-> <<FALSE, PyNone>>, log |-> msg]

\* Whether the outcome r is the (False, None) of error().
IsError(r) == "log" \in DOMAIN r

\* The cell values[row][col], both counted from 0.
Cell(values, row, col) == values[row + 1][col + 1]

\* The rows of an exported column: the header rows, the bar rows and the
\* comments row, counted from 0; first is the row of the first header.
ExportLayout(values, tmpl, first) ==
    LET headers == TemplateHeaders(tmpl)
    IN  [headers_iter |-> [i \in 1..Len(headers) |-> <<first + (i - 1), headers[i]>>],
         bars_iter |-> [i \in 1..RangeLen((Len(values) - 2) - (first + Len(headers) + 1)) |->
                          first + Len(headers) + 1 + (i - 1)],
         comments_row |-> Len(values) - 1]

RECURSIVE ExportHeaders(_, _, _, _)
\* for row, header in headers_iter: column[header] = values[row][col];
\* IndexError when the grid has no such row.
ExportHeaders(column, values, headers_iter, col) ==
    IF headers_iter = <<>> THEN Return(column)
    ELSE IF Head(headers_iter)[1] >= Len(values)
    THEN Raise("IndexError", <<ListIndexOutOfRange>>)
    ELSE ExportHeaders(DictSet(column, Head(headers_iter)[2],
                               Cell(values, Head(headers_iter)[1], col)),
                       values, Tail(headers_iter), col)

RECURSIVE ExportBars(_, _, _, _)
\* for row in bars_iter: bars[values[row][0]] = values[row][col]
ExportBars(bars, values, bars_iter, col) ==
    IF bars_iter = <<>> THEN bars
    ELSE ExportBars(DictSet(bars, Cell(values, Head(bars_iter), 0),
                            Cell(values, Head(bars_iter), col)),
                    values, Tail(bars_iter), col)

\* export_column(col, include_comments), and the column dict that
\* export_master_sheet builds for col.
export_column(values, lay, col, include_comments) ==
    LET r == ExportHeaders(<<>>, values, lay.headers_iter, col)
        c2 == DictSet(r.value, KeyBars,
                      ExportBars(<<>>, values, lay.bars_iter, col))
    IN  IF Raised(r) THEN r
        ELSE IF include_comments
        THEN Return(DictSet(c2, KeyComments, Cell(values, lay.comments_row, col)))
        ELSE Return(c2)

\* The piece's name and link of cell A1.
ExportPieceName(values) ==
    LET parsed == _parse_hyperlink(Cell(values, 0, 0))
    IN  [link |-> parsed[1],
         name |-> IF IsNone(parsed[2]) THEN Cell(values, 0, 0) ELSE parsed[2]]

RECURSIVE ExportSheetSources(_, _, _, _, _)
\* The loop of export_sheet over the columns col..last (counted from 0).
ExportSheetSources(sources, sh, values, lay, col) ==
    IF col >= Len(values[1]) - 1 THEN Return(sources)
    ELSE LET parsed == _parse_hyperlink(Cell(values, 0, col))
             column == export_column(values, lay, col, TRUE)
         IN  IF IsNone(parsed[1])
             THEN error(InvalidHyperlinkMessage(sh.title, col))
             ELSE IF Raised(column) THEN column
             ELSE ExportSheetSources(
                      Append(sources,
                             DictUpdate(<< <<KeyName, parsed[2]>>,
                                           <<KeyLink, parsed[1]>> >>,
                                        column.value)),
                      sh, values, lay, col + 1)

\* Piece.export_sheet(sheet, template)
Piece_export_sheet(sh, tmpl) ==
    LET values == GetValues(sh)
        piece == ExportPieceName(values)
        lay == ExportLayout(values, tmpl, 1)
        r == ExportSheetSources(<<>>, sh, values, lay, 1)
        notes == export_column(values, lay, Len(values[1]) - 1, FALSE)
    IN  IF values = <<>> \/ values[1] = <<>>
        THEN Raise("IndexError", <<ListIndexOutOfRange>>)
        ELSE IF IsError(r) \/ Raised(r) THEN r
        ELSE IF Raised(notes) THEN notes
        ELSE Return(<<TRUE,
                      [title |-> piece.name,
                       link |-> piece.link,
                       sources |-> r.value,
                       notes |-> notes.value]>>)

RECURSIVE SplitOn(_, _)
\* s.split(sep) for a one-character separator
SplitOn(s, sep) ==
    LET at == {k \in 1..Len(s) : s[k] = sep}
    IN  IF at = {} THEN <<s>>
        ELSE LET k == CHOOSE i \in at : \A j \in at : i <= j
             IN  <<SubSeq(s, 1, k - 1)>> \o SplitOn(SubSeq(s, k + 1, Len(s)), sep)

\* line.split(': ', 1)
SplitColonSpace(line) ==
    LET at == {k \in 1..(Len(line) - 1) : line[k] = ":" /\ line[k + 1] = " "}
    IN  IF at = {} THEN <<line>>
        ELSE LET k == CHOOSE i \in at : \A j \in at : i <= j
             IN  <<SubSeq(line, 1, k - 1), SubSeq(line, k + 2, Len(line))>>

\* 'not enough values to unpack (expected 2, got 1)'
NotEnoughValues ==
    PyStr(<<"n", "o", "t", " ", "e", "n", "o", "u", "g", "h", " ", "v", "a",
          "l", "u", "e", "s", " ", "t", "o", " ", "u", "n", "p", "a", "c",
          "k", " ", "(", "e", "x", "p", "e", "c", "t", "e", "d", " ", "2",
          ",", " ", "g", "o", "t", " ", "1", ")">>)

RECURSIVE ParseNoteLines(_, _)
\* The loop of parse_note over the lines.
ParseNoteLines(note, lines) ==
    IF lines = <<>> THEN Return(note)
    ELSE IF Head(lines) = <<>> THEN ParseNoteLines(note, Tail(lines))
    ELSE LET parts == SplitColonSpace(Head(lines))
         IN  IF Len(parts) # 2
             THEN Raise("ValueError", <<NotEnoughValues>>)
             ELSE ParseNoteLines(DictSet(note, PyStr(parts[1]), PyStr(parts[2])),
                                 Tail(lines))

\* parse_note(note_str) of export_master_sheet
parse_note(note) == ParseNoteLines(<<>>, SplitOn(note.s, NEWLINE))

RECURSIVE ExportNotes(_, _, _, _)
\* for row, key in rows: notes[key] = parse_note(values[row][notes_col])
ExportNotes(notes, values, rows, notes_col) ==
    IF rows = <<>> THEN Return(notes)
    ELSE IF Head(rows)[1] >= Len(values)
    THEN Raise("IndexError", <<ListIndexOutOfRange>>)
    ELSE LET r == parse_note(Cell(values, Head(rows)[1], notes_col))
         IN  IF Raised(r) THEN r
             ELSE ExportNotes(DictSet(notes, Head(rows)[2], r.value),
                              values, Tail(rows), notes_col)

\* The mutant of MasterPushSummary: the previous summary column is dropped
\* instead of being pushed to the volunteers.
MasterPushSummary_drops(source, email, column) ==
    [source EXCEPT !.summary = <<email, column>>]

\* The end of the column loop of export_master_sheet: the summary is
\* overwritten, the existing one being pushed to the volunteers.
MasterPushSummary(source, email, column) ==
    LET pushed == IF source.summary # <<>>
                  THEN [source EXCEPT !.volunteers =
                          DictSet(@, source.summary[1], source.summary[2])]
                  ELSE source
    IN  [pushed EXCEPT !.summary = <<email, column>>]

RECURSIVE ExportMasterSources(_, _, _, _, _)
\* The loop of export_master_sheet over the columns col..last (counted from
\* 0).  curr_source is the last element of sources, or {} when sources is
\* empty; a summary of None is <<>>.  The cells of the column are read
\* before curr_source['summary'] is.
ExportMasterSources(sources, sh, values, lay, col) ==
    IF col >= Len(values[1]) - 1 THEN Return(sources)
    ELSE LET new == Cell(values, 0, col) # EmptyStr
             parsed == _parse_hyperlink(Cell(values, 0, col))
             started == IF new
                        THEN Append(sources,
                                    [name |-> parsed[2], link |-> parsed[1],
                                     volunteers |-> <<>>, summary |-> <<>>])
                        ELSE sources
             email == Cell(values, 1, col)
             column == export_column(values, lay, col, TRUE)
         IN  IF new /\ IsNone(parsed[1])
             THEN error(InvalidHyperlinkMessage(sh.title, col))
             ELSE IF Len(values) < 2
             THEN Raise("IndexError", <<ListIndexOutOfRange>>)
             ELSE IF Raised(column) THEN column
             ELSE IF started = <<>>
             THEN Raise("KeyError", <<KeySummary>>)
             ELSE ExportMasterSources(
                      [started EXCEPT ![Len(started)] =
                          MasterPushSummary(@, email, column.value)],
                      sh, values, lay, col + 1)

\* Piece.export_master_sheet(sheet, template)
Piece_export_master_sheet(sh, tmpl) ==
    LET values == GetValues(sh)
        piece == ExportPieceName(values)
        lay == ExportLayout(values, tmpl, 2)
        r == ExportMasterSources(<<>>, sh, values, lay, 1)
        notes_col == Len(values[1]) - 1
        n1 == ExportNotes(<<>>, values, lay.headers_iter, notes_col)
        n2 == ExportNotes(<<>>, values,
                          [k \in 1..Len(lay.bars_iter) |->
                             <<lay.bars_iter[k], Cell(values, lay.bars_iter[k], 0)>>],
                          notes_col)
    IN  IF values = <<>> \/ values[1] = <<>>
        THEN Raise("IndexError", <<ListIndexOutOfRange>>)
        ELSE IF Raised(r) \/ IsError(r) THEN r
        ELSE IF Raised(n1) THEN n1
        ELSE IF Raised(n2) THEN n2
        ELSE Return(<<TRUE,
                      [title |-> piece.name,
                       link |-> piece.link,
                       sources |-> [k \in 1..Len(r.value) |->
                                      [r.value[k] EXCEPT !.summary = @[2]]],
                       notes |-> DictSet(n1.value, KeyBars, n2.value)]>>)

----------------------------------------------------------------------------
(* The pieces' specification: pieces are constructed from input records    *)
(* and combined.                                                           *)

MaxBar == 2
MaxSources == 2

\* The pieces of the program, in the order of their construction.
PieceIds == {1, 2}

\* A dict with an optional key: absent, or present with a value of S.
OptField(key, S) == {<<>>} \cup {key :> v : v \in S}

SourceNames == {PyStr(<<"x">>), PyStr(<<"y">>)}
SourceLinks == {PyStr(<<"u">>)}
PieceTitles == {PyStr(<<"T">>)}
PieceLinks == {PyStr(<<"p">>)}

ValidSourceRecords ==
    {("name" :> n) @@ ("link" :> l) @@ b :
        n \in SourceNames, l \in SourceLinks,
        b \in OptField("barCount", {PyInt(k) : k \in 1..MaxBar})}

\* Source records that Source.__init__ rejects.
InvalidSourceRecords ==
    LET n == CHOOSE x \in SourceNames : TRUE
        l == CHOOSE x \in SourceLinks : TRUE
    IN  { "link" :> l,
          "name" :> n,
          ("name" :> n) @@ ("link" :> l) @@ ("barCount" :> PyInt(0)),
          ("name" :> n) @@ ("link" :> l) @@ ("barCount" :> PyInt(-1)) }

SourceRecords == ValidSourceRecords \cup InvalidSourceRecords

ValidPieceRecords ==
    {("title" :> t) @@ ("sources" :> ss) @@ l @@ b :
        t \in PieceTitles,
        ss \in SeqsUpTo(ValidSourceRecords, MaxSources),
        l \in OptField("link", PieceLinks),
        b \in OptField("barCount", {PyInt(k) : k \in 0..MaxBar})}

\* Piece records that Piece.__init__ rejects: a key is missing, or one of
\* the source records is rejected.
InvalidPieceRecords ==
    {("title" :> t) @@ ("sources" :> ss) :
        t \in PieceTitles,
        ss \in SeqsUpTo(SourceRecords, MaxSources)
                 \ SeqsUpTo(ValidSourceRecords, MaxSources)}
    \cup {"sources" :> <<>>, "title" :> CHOOSE t \in PieceTitles : TRUE}

PieceRecords == ValidPieceRecords \cup InvalidPieceRecords

HeaderKey(k) == PyStr(<<"k">> \o str_int(k))
HeaderText(k) == PyStr(<<"H">> \o str_int(k))

\* A template with h metaDataFields and the given defaultBarCount.
Template(h, dflt) ==
    [metaDataFields |-> [k \in 1..h |-> <<HeaderKey(k), HeaderText(k)>>],
     commentFields |-> [comments |-> PyStr(<<"C">>),
                        summary |-> PyStr(<<"S">>),
                        notes |-> PyStr(<<"N">>)],
     values |-> [defaultBarCount |-> PyInt(dflt)]]

PieceInit ==
    /\ codec = NoCodec
    /\ heap = <<>>
    /\ pieces = [p \in PieceIds |-> PyNone]
    /\ template = Template(1, 1)
    /\ sheet = NoSheet
    /\ ret = NoCall

\* pieces[p] = Piece(kwargs, template)
NewPiece(p, kwargs) ==
    /\ IsNone(pieces[p])
    /\ \A q \in PieceIds : q < p => ~IsNone(pieces[q])
    /\ LET r == Piece_init(heap, kwargs, template)
       IN  IF Raised(r)
           THEN /\ ret' = [op |-> "Piece", self |-> p, kwargs |-> kwargs,
                           exc |-> r.exc, args |-> r.args]
                /\ UNCHANGED <<heap, pieces>>
           ELSE /\ heap' = r.value.heap
                /\ pieces' = [pieces EXCEPT ![p] = r.value.piece]
                /\ ret' = [op |-> "Piece", self |-> p, kwargs |-> kwargs,
                           exc |-> "none"]
    /\ UNCHANGED <<codec, template, sheet>>

\* pieces[a].combine(pieces[b])
PieceCombine(a, b) ==
    /\ ~IsNone(pieces[a])
    /\ ~IsNone(pieces[b])
    /\ LET st == Piece_combine(heap, pieces[a], pieces[b])
       IN  /\ heap' = st.heap
           /\ pieces' = [pieces EXCEPT ![a] = st.piece]
    /\ ret' = [op |-> "Piece.combine", self |-> a, other |-> b, exc |-> "none"]
    /\ UNCHANGED <<codec, template, sheet>>

PieceNext ==
    \/ \E p \in PieceIds, kwargs \in PieceRecords : NewPiece(p, kwargs)
    \/ \E a, b \in PieceIds : PieceCombine(a, b)

SpecPiece == PieceInit /\ [][PieceNext]_vars

----------------------------------------------------------------------------
(* The owners' specification: three pieces are constructed from valid      *)
(* records and combined with each other in any order.                      *)

MaxOwnerSources == 1

OwnerIds == {1, 2, 3}

OwnerSourceRecords ==
    {("name" :> n) @@ ("link" :> l) @@ b :
        n \in SourceNames, l \in SourceLinks,
        b \in OptField("barCount", {PyInt(MaxBar)})}

OwnerPieceRecords ==
    {("title" :> t) @@ ("sources" :> ss) @@ l :
        t \in PieceTitles,
        ss \in SeqsUpTo(OwnerSourceRecords, MaxOwnerSources),
        l \in OptField("link", PieceLinks)}

OwnerInit ==
    /\ codec = NoCodec
    /\ heap = <<>>
    /\ pieces = [p \in OwnerIds |-> PyNone]
    /\ template = Template(1, 1)
    /\ sheet = NoSheet
    /\ ret = NoCall

OwnerNext ==
    \/ \E p \in OwnerIds, kwargs \in OwnerPieceRecords : NewPiece(p, kwargs)
    \/ \E a, b \in OwnerIds : PieceCombine(a, b)

SpecOwner == OwnerInit /\ [][OwnerNext]_vars

----------------------------------------------------------------------------
(* The sheets' specification: a piece is constructed, its sheet and its    *)
(* master sheet are created, and the sheet last created is exported.       *)

MaxHeaders == 1
MaxVolunteers == 1
MaxWidth == 6
\* The widest header row of a piece that a create_master_sheet which raises
\* leaves behind.
MaxRaisedWidth == 2

SheetSourceNames == {PyStr(<<"x">>), PyStr(<<QUOTE>>), EmptyStr}

SheetSourceRecords ==
    {("name" :> n) @@ ("link" :> l) : n \in SheetSourceNames, l \in SourceLinks}

\* The bar counts of the pieces: a positive one, zero, a negative one for
\* which create_master_sheet counts the comments row from the end of the
\* rows, and one for which it has no such row.
SheetBarCounts ==
    {PyInt(MaxBar), PyInt(0), PyInt(0 - (MaxHeaders + 5)),
     PyInt(0 - (2 * MaxHeaders + 10))}

SheetPieceRecords ==
    {("title" :> t) @@ ("sources" :> ss) @@ l @@ b :
        t \in PieceTitles,
        ss \in SeqsUpTo(SheetSourceRecords, MaxSources),
        l \in OptField("link", PieceLinks),
        b \in OptField("barCount", SheetBarCounts)}

Emails == {PyStr(<<"e">>), PyStr(<<"f">>)}

\* The lists of distinct emails, of up to MaxVolunteers emails.
EmailLists ==
    {es \in SeqsUpTo(Emails, MaxVolunteers) :
        \A i, j \in DOMAIN es : es[i] = es[j] => i = j}

\* The notes of one header or bar: email -> text.
NoteDicts ==
    LET e == PyStr(<<"e">>)
        f == PyStr(<<"f">>)
    IN  { <<>>,
          << <<e, PyStr(<<"t">>)>>, <<f, EmptyStr>> >>,
          << <<e, PyStr(<<"t", NEWLINE, "u">>)>> >> }

\* The data of one contributor column: a value for every header of the
\* template, for every bar and for the comments, each naming the column
\* (tag) and the row.
Volunteer(tag, tmpl, bar_count) ==
    LET headers == TemplateHeaders(tmpl)
    IN  [k \in 1..Len(headers) |-> <<headers[k], PyStr(tag \o <<"h">> \o str_int(k))>>]
        \o << <<KeyBars, [i \in 1..RangeLen(bar_count) |->
                            <<PyStr(str_int(i)), PyStr(tag \o <<"b">> \o str_int(i))>>]>>,
              <<KeyComments, PyStr(tag \o <<"c">>)>> >>

\* A piece_data that fits the piece: for every source the volunteers of
\* emails and a summary, and the notes nd for every header and bar.
PieceData(h, self, tmpl, emails, nd) ==
    LET bar_count == Piece_final_bar_count(self, tmpl).n
        headers == TemplateHeaders(tmpl)
    IN  [sources |->
            [k \in 1..Len(self.sources) |->
                <<h[self.sources[k]].name,
                  << <<KeyVolunteers,
                       [j \in 1..Len(emails) |->
                          <<emails[j],
                            Volunteer(str_int(k) \o emails[j].s, tmpl, bar_count)>>]>>,
                     <<KeySummary,
                       Volunteer(str_int(k) \o <<"S">>, tmpl, bar_count)>> >> >>],
         notes |->
            [k \in 1..Len(headers) |-> <<headers[k], nd>>]
            \o << <<KeyBars, [i \in 1..RangeLen(bar_count) |->
                                <<PyStr(str_int(i)), nd>>]>> >>]

SheetInit ==
    /\ codec = NoCodec
    /\ heap = <<>>
    /\ pieces = [p \in PieceIds |-> PyNone]
    /\ template \in {Template(hc, 1) : hc \in 0..MaxHeaders}
    /\ sheet = NoSheet
    /\ ret = NoCall

\* sheet = pieces[p].create_sheet(spreadsheet)
CreateSheet(p) ==
    /\ ~IsNone(pieces[p])
    /\ sheet' = [kind |-> "sheet", title |-> pieces[p].name, piece |-> p,
                 values |-> Piece_create_sheet_values(heap, pieces[p], template)]
    /\ ret' = [op |-> "Piece.create_sheet", self |-> p, exc |-> "none",
               offsets |-> Piece_create_sheet_offsets(heap, pieces[p], template)]
    /\ UNCHANGED <<codec, heap, pieces, template>>

\* sheet = pieces[p].create_master_sheet(spreadsheet, piece_data); when the
\* call raises, no sheet is returned and the piece keeps the appends made.
CreateMasterSheet(p, emails, nd) ==
    /\ ~IsNone(pieces[p])
    /\ LET piece_data == PieceData(heap, pieces[p], template, emails, nd)
           r == Piece_create_master_sheet(heap, pieces[p], template, piece_data)
       IN  /\ pieces' = [pieces EXCEPT ![p] = r.piece]
           /\ IF Raised(r)
              THEN /\ \A k \in 1..Len(r.piece.values[1]) :
                         Len(r.piece.values[1][k]) <= MaxRaisedWidth
                   /\ ret' = [op |-> "Piece.create_master_sheet", self |-> p,
                              exc |-> r.exc, args |-> r.args]
                   /\ UNCHANGED sheet
              ELSE /\ \A k \in 1..Len(r.values) : Len(r.values[k]) <= MaxWidth
                   /\ sheet' = [kind |-> "master", title |-> pieces[p].name,
                                piece |-> p, values |-> r.values,
                                piece_data |-> piece_data]
                   /\ ret' = [op |-> "Piece.create_master_sheet", self |-> p,
                              exc |-> "none", offsets |-> r.offsets]
    /\ UNCHANGED <<codec, heap, template>>

\* Piece.export_sheet(sheet, template)
ExportSheet ==
    /\ sheet.kind = "sheet"
    /\ ret' = [op |-> "Piece.export_sheet"] @@ Piece_export_sheet(sheet, template)
    /\ UNCHANGED <<codec, heap, pieces, template, sheet>>

\* Piece.export_master_sheet(sheet, template)
ExportMasterSheet ==
    /\ sheet.kind = "master"
    /\ ret' = [op |-> "Piece.export_master_sheet"]
                 @@ Piece_export_master_sheet(sheet, template)
    /\ UNCHANGED <<codec, heap, pieces, template, sheet>>

SheetNext ==
    \/ \E kwargs \in SheetPieceRecords : NewPiece(1, kwargs)
    \/ CreateSheet(1)
    \/ \E emails \in EmailLists, nd \in NoteDicts : CreateMasterSheet(1, emails, nd)
    \/ ExportSheet
    \/ ExportMasterSheet

SpecSheet == SheetInit /\ [][SheetNext]_vars

----------------------------------------------------------------------------
(* The exports' specification: a well-shaped grid is drawn in Init (row 1, *)
(* for a master sheet row 2, the header rows, a blank row, the bar rows, a *)
(* blank row and the comments row; column A, the contributor columns and   *)
(* the notes column) and is exported.                                      *)

MaxCols == 3
MaxGridBars == 1

\* The row-1 cells of a contributor column: blank, two source hyperlinks
\* and a plain string.
Row1Cells ==
    { EmptyStr,
      _hyperlink(PyStr(<<"x">>), PyStr(<<"u">>)),
      _hyperlink(PyStr(<<"y">>), PyStr(<<"v">>)),
      PyStr(<<"P">>) }

\* The cells of the notes column.
NoteCells ==
    { EmptyStr,
      PyStr(<<"e", ":", " ", "t", NEWLINE, NEWLINE, "f", ":", " ", "u", ":", " ", "w">>),
      PyStr(<<"e", ":", " ", "t", NEWLINE, "j">>) }

\* The data cell of contributor column col (from 1) and row (from 0).
DataCell(col, row) == PyStr(<<"c">> \o str_int(col) \o <<"r">> \o str_int(row))

\* A grid with the header rows of tmpl and nbars bar rows; top is the
\* number of rows above the header rows (1, or 2 with the emails row);
\* row1 and emails give the cells of the contributor columns.
Grid(tmpl, top, nbars, row1, emails, note) ==
    LET hc == Len(tmpl.metaDataFields)
        n == Len(row1)
        nrows == top + hc + 1 + nbars + 2
        Label(row) ==
            IF row = 0 THEN _hyperlink(PyStr(<<"T">>), PyStr(<<"p">>))
            ELSE IF row < top THEN LabelVolunteer
            ELSE IF row < top + hc THEN tmpl.metaDataFields[row - top + 1][2]
            ELSE IF row = top + hc THEN EmptyStr
            ELSE IF row < top + hc + 1 + nbars THEN PyInt(row - (top + hc))
            ELSE IF row = nrows - 1 THEN tmpl.commentFields.comments
            ELSE EmptyStr
        IsData(row) ==
            \/ top <= row /\ row < top + hc
            \/ top + hc < row /\ row < top + hc + 1 + nbars
            \/ row = nrows - 1
        Middle(row, col) ==
            IF row = 0 THEN row1[col]
            ELSE IF row < top THEN emails[col]
            ELSE IF IsData(row) THEN DataCell(col, row)
            ELSE EmptyStr
        Last(row) ==
            IF row = 0 THEN tmpl.commentFields.notes
            ELSE IF IsData(row) /\ row # nrows - 1 THEN note
            ELSE EmptyStr
    IN  [r \in 1..nrows |->
            <<Label(r - 1)>> \o [c \in 1..n |-> Middle(r - 1, c)] \o <<Last(r - 1)>>]

ExportInit ==
    /\ codec = NoCodec
    /\ heap = <<>>
    /\ pieces = [p \in PieceIds |-> PyNone]
    /\ template \in {Template(hc, 1) : hc \in 0..MaxHeaders}
    /\ \E nbars \in 0..MaxGridBars, row1 \in SeqsUpTo(Row1Cells, MaxCols),
          note \in NoteCells :
          \/ sheet = [kind |-> "sheet", title |-> PyStr(<<"T">>),
                      values |-> Grid(template, 1, nbars, row1, <<>>, note)]
          \/ \E emails \in [1..Len(row1) -> Emails] :
                sheet = [kind |-> "master", title |-> PyStr(<<"T">>),
                         values |-> Grid(template, 2, nbars, row1, emails, note)]
    /\ ret = NoCall

ExportNext == ExportSheet \/ ExportMasterSheet

SpecExport == ExportInit /\ [][ExportNext]_vars

----------------------------------------------------------------------------
(* The sources' specification: Source objects are constructed and          *)
(* combined, and _max is applied to optional bar counts.                   *)

MaxObjects == 3

OptBarCounts == {PyNone} \cup {PyInt(k) : k \in 1..MaxBar}

SourceInit ==
    /\ codec = NoCodec
    /\ heap = <<>>
    /\ pieces = <<>>
    /\ template = NoTemplate
    /\ sheet = NoSheet
    /\ ret = NoCall

\* heap[n] = Source(kwargs)
NewSource(kwargs) ==
    /\ Len(heap) < MaxObjects
    /\ LET r == Source_init(kwargs)
       IN  IF Raised(r)
           THEN /\ ret' = [op |-> "Source", kwargs |-> kwargs,
                           exc |-> r.exc, args |-> r.args]
                /\ UNCHANGED heap
           ELSE /\ heap' = Append(heap, r.value)
                /\ ret' = [op |-> "Source", kwargs |-> kwargs, exc |-> "none"]
    /\ UNCHANGED <<codec, pieces, template, sheet>>

\* heap[s].combine(heap[o])
SourceCombine(s, o) ==
    /\ heap' = Source_combine(heap, s, o)
    /\ ret' = [op |-> "Source.combine", self |-> s, other |-> o, exc |-> "none"]
    /\ UNCHANGED <<codec, pieces, template, sheet>>

\* _max(a, b)
MaxCall(a, b) ==
    /\ ret' = [op |-> "_max", a |-> a, b |-> b, exc |-> "none",
               value |-> _max(a, b)]
    /\ UNCHANGED <<codec, heap, pieces, template, sheet>>

SourceNext ==
    \/ \E kwargs \in SourceRecords : NewSource(kwargs)
    \/ \E s, o \in DOMAIN heap : SourceCombine(s, o)
    \/ \E a, b \in OptBarCounts : MaxCall(a, b)

SpecSource == SourceInit /\ [][SourceNext]_vars

----------------------------------------------------------------------------
(* The claims about Source and Piece *)

\* r is the max-or-absent of a and b as the documentation states it: absent
\* only when both are absent, the present one when exactly one is present,
\* the arithmetic maximum otherwise.
IsMaxOrAbsent(r, a, b) ==
    /\ (IsNone(a) /\ IsNone(b)) => IsNone(r)
    /\ (IsNone(a) /\ ~IsNone(b)) => r = b
    /\ (~IsNone(a) /\ IsNone(b)) => r = a
    /\ (~IsNone(a) /\ ~IsNone(b)) =>
          /\ IsInt(r)
          /\ r.n \in {a.n, b.n}
          /\ r.n >= a.n
          /\ r.n >= b.n

\* The first index (0-based) of a source record that Source.__init__ rejects.
FirstInvalid(sources) ==
    LET bad == {i \in 1..Len(sources) : Raised(Source_init(sources[i]))}
    IN  IF bad = {} THEN -1 ELSE (CHOOSE i \in bad : \A j \in bad : i <= j) - 1

\* C6: constructing a Piece whose source record at index i is invalid fails
\* with that source's ValueError, its message tagged 'source i: ', and no
\* Piece is produced.
C6_InvalidSourceTagged ==
    (/\ ret.op = "Piece"
     /\ HasKey(ret.kwargs, "title")
     /\ HasKey(ret.kwargs, "sources")
     /\ FirstInvalid(ret.kwargs["sources"]) >= 0)
    => LET i == FirstInvalid(ret.kwargs["sources"])
           ex == Source_init(ret.kwargs["sources"][i + 1])
       IN  /\ ret.exc = "ValueError"
           /\ ret.args = <<PyStr(SourceTag(i) \o ex.args[1].s)>>
           /\ IsNone(pieces[ret.self])

SourceNamesOf(h, piece) == [k \in 1..Len(piece.sources) |-> h[piece.sources[k]].name]

Range(f) == {f[k] : k \in DOMAIN f}

\* The names of a list of source records in the order of first occurrence.
RECURSIVE FirstOccurrences(_, _)
FirstOccurrences(names, seen) ==
    IF names = <<>> THEN <<>>
    ELSE IF Head(names) \in seen THEN FirstOccurrences(Tail(names), seen)
    ELSE <<Head(names)>> \o FirstOccurrences(Tail(names), seen \cup {Head(names)})

C7_UniqueNames ==
    \A p \in DOMAIN pieces : ~IsNone(pieces[p]) =>
        LET names == SourceNamesOf(heap, pieces[p])
        IN  \A i, j \in DOMAIN names : names[i] = names[j] => i = j

C7_Construct ==
    (ret'.op = "Piece" /\ ret'.exc = "none") =>
        LET kw == ret'.kwargs
            self == pieces'[ret'.self]
        IN  /\ SourceNamesOf(heap', self) =
                  FirstOccurrences([k \in 1..Len(kw["sources"]) |->
                                      kw["sources"][k]["name"]], {})
            /\ self.link = Get(kw, "link", PyNone)

C7_Combine ==
    (ret'.op = "Piece.combine") =>
        LET a == ret'.self
            b == ret'.other
            before == SourceNamesOf(heap, pieces[a])
            incoming == SourceNamesOf(heap, pieces[b])
            after == SourceNamesOf(heap', pieces'[a])
        IN  /\ after = before \o FirstOccurrences(incoming, Range(before))
            /\ Len(after) = Cardinality(Range(before) \cup Range(incoming))
            /\ pieces'[a].link = IF IsNone(pieces[a].link) THEN pieces[b].link
                                 ELSE pieces[a].link

\* C7: after construction and any sequence of Piece.combine calls the
\* source names of a piece are unique, their order is the order of first
\* insertion (the piece's own sources, then each combined piece's new names
\* in that piece's order), a same-named incoming source adds no entry, and
\* the link is the original link if set, else that of the first combined
\* piece that has one.
C7_SourceMapping ==
    /\ []C7_UniqueNames
    /\ [][C7_Construct]_vars
    /\ [][C7_Combine]_vars

\* A piece with two sources whose names came in from a combine that also met
\* a same-named source.
C7_Witness ==
    /\ ret.op = "Piece.combine"
    /\ ret.self # ret.other
    /\ Len(pieces[ret.self].sources) = 2
    /\ Len(pieces[ret.other].sources) = 2
    /\ SourceNamesOf(heap, pieces[ret.self]) # SourceNamesOf(heap, pieces[ret.other])
    /\ ~IsNone(pieces[ret.self].link)

\* C8: after a.combine(b), a.bar_count is the max-or-absent of a's and b's
\* bar_count before the call, and a.final_bar_count is that value or the
\* template's defaultBarCount when both are absent.
C8_BarCountMerged ==
    [][(ret'.op = "Piece.combine") =>
        LET a == ret'.self
            b == ret'.other
        IN  /\ IsMaxOrAbsent(pieces'[a].bar_count,
                             pieces[a].bar_count, pieces[b].bar_count)
            /\ Piece_final_bar_count(pieces'[a], template) =
                  IF IsNone(pieces[a].bar_count) /\ IsNone(pieces[b].bar_count)
                  THEN template.values.defaultBarCount
                  ELSE pieces'[a].bar_count]_vars

\* C9: a Piece's bar_count is absent or a positive integer, so that
\* final_bar_count is positive whenever the template default is.
C9_BarCountPositive ==
    \A p \in DOMAIN pieces : ~IsNone(pieces[p]) =>
        /\ IsNone(pieces[p].bar_count) \/ pieces[p].bar_count.n > 0
        /\ template.values.defaultBarCount.n > 0 =>
              Piece_final_bar_count(pieces[p], template).n > 0

C10_Max ==
    (ret.op = "_max") =>
        /\ ret.value = _max(ret.b, ret.a)
        /\ IsMaxOrAbsent(ret.value, ret.a, ret.b)

C10_Combine ==
    (ret'.op = "Source.combine") =>
        LET s == ret'.self
            o == ret'.other
        IN  /\ IsMaxOrAbsent(heap'[s].bar_count,
                             heap[s].bar_count, heap[o].bar_count)
            /\ heap'[s].name = heap[s].name
            /\ heap'[s].link = heap[s].link
            /\ heap'[o] = heap[o]
            /\ \A x \in DOMAIN heap : x # s => heap'[x] = heap[x]

\* C10: _max is commutative, absent only when both arguments are, the
\* present one when exactly one is present and the arithmetic maximum
\* otherwise; s.combine(o) sets s.bar_count to _max(s.bar_count,
\* o.bar_count) and leaves s.name, s.link and every attribute of o unchanged.
C10_MaxOrAbsent ==
    /\ []C10_Max
    /\ [][C10_Combine]_vars

\* s.combine(o) has raised the bar count of s to that of another source o.
C10_Witness ==
    /\ ret.op = "Source.combine"
    /\ ret.self # ret.other
    /\ heap[ret.self].bar_count = PyInt(MaxBar)
    /\ \E x \in DOMAIN heap : IsNone(heap[x].bar_count)

----------------------------------------------------------------------------
(* The claims about the codec's users: the builders and the exporters *)

\* The bars mapping has exactly n entries, keyed by the bar numbers 1..n.
BarsKeyed(column, n) ==
    /\ DictHas(column, KeyBars)
    /\ Len(DictGet(column, KeyBars)) = n
    /\ {DictGet(column, KeyBars)[k][1] : k \in 1..Len(DictGet(column, KeyBars))}
          = {PyInt(i) : i \in 1..n}

\* C2: export_sheet on the grid that create_sheet writes succeeds and
\* returns the piece's title and link, the sources with the same names and
\* links in the piece's source order, and for each source and for the notes
\* column a bars mapping with exactly final_bar_count entries keyed by the
\* bar numbers 1..final_bar_count.
C2_SheetRoundTrip ==
    (ret.op = "Piece.export_sheet" /\ "piece" \in DOMAIN sheet) =>
        LET self == pieces[sheet.piece]
            n == Piece_final_bar_count(self, template).n
        IN  /\ ret.exc = "none"
            /\ ret.value[1] = TRUE
            /\ LET data == ret.value[2]
               IN  /\ data.title = self.name
                   /\ data.link = self.link
                   /\ Len(data.sources) = Len(self.sources)
                   /\ \A k \in 1..Len(self.sources) :
                         /\ DictGet(data.sources[k], KeyName)
                               = heap[self.sources[k]].name
                         /\ DictGet(data.sources[k], KeyLink)
                               = heap[self.sources[k]].link
                         /\ BarsKeyed(data.sources[k], n)
                   /\ BarsKeyed(data.notes, n)

\* A bar number as the key of the input's bars mappings: its decimal string.
BarKey(key) == IF IsInt(key) THEN PyStr(str_int(key.n)) ELSE key

\* A bars mapping with its keys as decimal strings.
BarsMap(bars) == {<<BarKey(bars[k][1]), bars[k][2]>> : k \in 1..Len(bars)}

\* Dict equality of an exported contributor column and an input one: the
\* same keys with equal values, the bars being compared as dicts up to the
\* rendering of the bar numbers.
ColumnEq(x, y) ==
    /\ {x[k][1] : k \in 1..Len(x)} = {y[k][1] : k \in 1..Len(y)}
    /\ \A k \in 1..Len(x) :
          IF x[k][1] = KeyBars
          THEN BarsMap(x[k][2]) = BarsMap(DictGet(y, KeyBars))
          ELSE x[k][2] = DictGet(y, x[k][1])

\* Dict equality of two mappings whose values are dicts email -> text, up
\* to the rendering of the bar numbers.
NestedEq(x, y) ==
    /\ {BarKey(x[k][1]) : k \in 1..Len(x)} = {BarKey(y[k][1]) : k \in 1..Len(y)}
    /\ \A k \in 1..Len(x) :
          \E j \in 1..Len(y) :
              /\ BarKey(y[j][1]) = BarKey(x[k][1])
              /\ AsMap(x[k][2]) = AsMap(y[j][2])

\* C3: export_master_sheet on the grid that create_master_sheet writes
\* succeeds and returns, per source in the piece's source order, the same
\* name and link, a volunteers mapping equal to the input volunteers, a
\* summary equal to the input summary column, and a notes mapping equal to
\* the input notes for every header and every bar.
C3_MasterRoundTrip ==
    (ret.op = "Piece.export_master_sheet" /\ "piece" \in DOMAIN sheet) =>
        LET self == pieces[sheet.piece]
            input == sheet.piece_data
        IN  /\ ret.exc = "none"
            /\ ret.value[1] = TRUE
            /\ LET data == ret.value[2]
               IN  /\ Len(data.sources) = Len(self.sources)
                   /\ \A k \in 1..Len(self.sources) :
                         LET src == heap[self.sources[k]]
                             given == DictGet(input.sources, src.name)
                             vols == DictGet(given, KeyVolunteers)
                         IN  /\ data.sources[k].name = src.name
                             /\ data.sources[k].link = src.link
                             /\ DictKeys(data.sources[k].volunteers)
                                   = DictKeys(vols)
                             /\ \A j \in 1..Len(vols) :
                                   ColumnEq(data.sources[k].volunteers[j][2],
                                            vols[j][2])
                             /\ ColumnEq(data.sources[k].summary,
                                         DictGet(given, KeySummary))
                   /\ {data.notes[k][1] : k \in 1..Len(data.notes)}
                         = {input.notes[k][1] : k \in 1..Len(input.notes)}
                   /\ \A k \in 1..Len(input.notes) :
                         IF input.notes[k][1] = KeyBars
                         THEN NestedEq(DictGet(data.notes, KeyBars), input.notes[k][2])
                         ELSE AsMap(DictGet(data.notes, input.notes[k][1]))
                                = AsMap(input.notes[k][2])

\* The contributor columns of a grid (counted from 0): 1..N-2.
ContributorCols(values) == 1..(Len(values[1]) - 2)

\* The source groups of a grid's row 1: for every non-blank row-1 cell the
\* columns from it up to the next non-blank one, in column order.
Groups(values) ==
    LET starts == {c \in ContributorCols(values) : Cell(values, 0, c) # EmptyStr}
        End(c) == IF \E d \in starts : d > c
                  THEN (CHOOSE d \in starts : d > c /\ \A e \in starts : e > c => d <= e) - 1
                  ELSE Len(values[1]) - 2
        Nth(S, k) == CHOOSE c \in S : Cardinality({d \in S : d < c}) = k - 1
    IN  [k \in 1..Cardinality(starts) |-> <<Nth(starts, k), End(Nth(starts, k))>>]

\* Every contributor column is in a source group whose row-1 cell decodes.
Grouped(values) ==
    /\ ContributorCols(values) # {} => Cell(values, 0, 1) # EmptyStr
    /\ \A c \in ContributorCols(values) :
          Cell(values, 0, c) # EmptyStr =>
              ~IsNone(_parse_hyperlink(Cell(values, 0, c))[1])

\* The exported sources of a master grid are its groups, each with the data
\* of its last column as summary; Volunteers(vols, first, last) states what
\* the volunteers mapping holds of the columns first..last-1.
GroupsExported(Volunteers(_, _, _)) ==
    (/\ ret.op = "Piece.export_master_sheet"
     /\ ret.exc = "none"
     /\ ret.value[1] = TRUE) =>
        LET values == GetValues(sheet)
            lay == ExportLayout(values, template, 2)
            groups == Groups(values)
            data == ret.value[2]
        IN  /\ Grouped(values)
            /\ Len(data.sources) = Len(groups)
            /\ \A k \in 1..Len(groups) :
                  LET first == groups[k][1]
                      last == groups[k][2]
                      parsed == _parse_hyperlink(Cell(values, 0, first))
                  IN  /\ data.sources[k].name = parsed[2]
                      /\ data.sources[k].link = parsed[1]
                      /\ data.sources[k].summary
                            = export_column(values, lay, last, TRUE).value
                      /\ Volunteers(data.sources[k].volunteers, first, last)

\* C4 as stated: the volunteers mapping holds one entry for each of the
\* first k-1 columns of the group, keyed by that column's row-2 email, so
\* it has exactly k-1 entries.
C4_OneEntryPerColumn ==
    LET Volunteers(vols, first, last) ==
            LET values == GetValues(sheet)
                lay == ExportLayout(values, template, 2)
            IN  /\ Len(vols) = last - first
                /\ \A c \in first..(last - 1) :
                      /\ DictHas(vols, Cell(values, 1, c))
                      /\ DictGet(vols, Cell(values, 1, c))
                            = export_column(values, lay, c, TRUE).value
    IN  GroupsExported(Volunteers)

\* C4, amended: whenever export_master_sheet returns a record, its sources
\* are the groups of row 1 in column order, the summary of each is the data
\* of the last column of its group, and its volunteers mapping is keyed by
\* the row-2 emails of the first k-1 columns of the group: each such email
\* maps to the data of the last of these columns that has this email, so
\* the mapping has at most k-1 entries, and exactly k-1 when the emails are
\* distinct; no column of another group appears in it.
C4_Grouping ==
    LET Volunteers(vols, first, last) ==
            LET values == GetValues(sheet)
                lay == ExportLayout(values, template, 2)
                Wins(c) == \A d \in (c + 1)..(last - 1) :
                               Cell(values, 1, d) # Cell(values, 1, c)
            IN  /\ AsMap(vols) =
                      {<<Cell(values, 1, c), export_column(values, lay, c, TRUE).value>> :
                          c \in {d \in first..(last - 1) : Wins(d)}}
                /\ Len(vols) = Cardinality({Cell(values, 1, c) : c \in first..(last - 1)})
                /\ Len(vols) <= last - first
    IN  GroupsExported(Volunteers)

\* export_master_sheet has returned a record for a grid with header rows
\* whose single group has three columns with distinct emails: two
\* volunteers and the summary.
C4_Witness ==
    /\ ret.op = "Piece.export_master_sheet"
    /\ ret.exc = "none"
    /\ ret.value[1] = TRUE
    /\ Len(ret.value[2].sources) = 1
    /\ Len(ret.value[2].sources[1].volunteers) = 2
    /\ Len(template.metaDataFields) > 0

\* The first contributor column (counted from 0) whose row-1 cell the export
\* requires to decode as a hyperlink and that does not, or -1: any cell for
\* export_sheet, the non-blank cells for export_master_sheet.
FirstMalformed(values, master) ==
    LET bad == {c \in ContributorCols(values) :
                  /\ master => Cell(values, 0, c) # EmptyStr
                  /\ IsNone(_parse_hyperlink(Cell(values, 0, c))[1])}
    IN  IF bad = {} THEN -1 ELSE CHOOSE c \in bad : \A d \in bad : c <= d

\* C5: when a required row-1 cell does not decode as a hyperlink the export
\* returns (False, None) with an error naming the sheet and the column
\* letter of the first such cell; when every such cell decodes, the result
\* is (True, record).
C5_MalformedHeader ==
    (ret.op \in {"Piece.export_sheet", "Piece.export_master_sheet"}) =>
        LET values == GetValues(sheet)
            bad == FirstMalformed(values, ret.op = "Piece.export_master_sheet")
        IN  /\ ret.exc = "none"
            /\ IF bad >= 0
               THEN /\ ret.value = <<FALSE, PyNone>>
                    /\ ret.log = InvalidHyperlinkMessage(sheet.title, bad)
               ELSE ret.value[1] = TRUE

----------------------------------------------------------------------------
(* The claims about the layout *)

\* The offsets of a single sheet with the first blank row at blank_row1.
OffsetsFrom(self, tmpl, blank_row1) ==
    LET bar_count == Piece_final_bar_count(self, tmpl).n
    IN  [notes_col |-> 1 + Len(self.sources) + 1,
         blank_row1 |-> blank_row1,
         blank_row2 |-> blank_row1 + bar_count + 1,
         comments_row |-> blank_row1 + bar_count + 1 + 1]

\* C11 as stated: create_sheet computes notesCol = 1 + sourceCount + 1,
\* blankRow1 = 1 + headerCount, blankRow2 = blankRow1 + bar_count + 1 and
\* commentsRow = blankRow2 + 1, bar_count being final_bar_count.
C11_OffsetsAsStated ==
    ret.op = "Piece.create_sheet" =>
        ret.offsets = OffsetsFrom(pieces[ret.self], template,
                                  1 + Len(template.metaDataFields))

\* C11, amended: create_sheet computes notesCol = 1 + sourceCount + 1,
\* blankRow1 = 1 + headerCount + 1, blankRow2 = blankRow1 + bar_count + 1
\* and commentsRow = blankRow2 + 1, bar_count being final_bar_count.
C11_Offsets ==
    ret.op = "Piece.create_sheet" =>
        ret.offsets = OffsetsFrom(pieces[ret.self], template,
                                  1 + Len(template.metaDataFields) + 1)

\* create_sheet has been called on a piece with two sources and a bar count
\* of its own, under a template with header rows.
C11_Witness ==
    /\ ret.op = "Piece.create_sheet"
    /\ Len(pieces[ret.self].sources) = 2
    /\ pieces[ret.self].bar_count = PyInt(MaxBar)
    /\ Len(template.metaDataFields) > 0
    /\ ret.offsets.blank_row2 = ret.offsets.blank_row1 + MaxBar + 1

\* The piece as it is after construction: its stored header and comments
\* rows are those of the template.
FreshPiece(self, tmpl) == [self EXCEPT !.values = Piece_init_values(tmpl)]

\* C12: create_sheet and create_master_sheet leave the piece unchanged,
\* its stored header and comments rows included, so after any sequence of
\* layout builds a further build writes the same grid, with the same
\* offsets, as it would on a freshly constructed piece.
C12_LayoutPure ==
    (ret.op \in {"Piece.create_sheet", "Piece.create_master_sheet"}) =>
        LET self == pieces[ret.self]
            fresh == FreshPiece(self, template)
        IN  /\ self = fresh
            /\ ret.op = "Piece.create_sheet" =>
                  /\ sheet.values = Piece_create_sheet_values(heap, fresh, template)
                  /\ ret.offsets = Piece_create_sheet_offsets(heap, fresh, template)
            /\ (ret.op = "Piece.create_master_sheet" /\ ret.exc = "none") =>
                  LET r == Piece_create_master_sheet(heap, fresh, template,
                                                     sheet.piece_data)
                  IN  /\ r.exc = "none"
                      /\ sheet.values = r.values
                      /\ ret.offsets = r.offsets

----------------------------------------------------------------------------
(* The claims about ownership *)

\* What a piece shows of itself: its link, its bar count and the names, links
\* and bar counts of its sources, in order.
PieceView(h, piece) ==
    IF IsNone(piece) THEN PyNone
    ELSE [link |-> piece.link,
          bar_count |-> piece.bar_count,
          sources |-> [k \in 1..Len(piece.sources) |-> h[piece.sources[k]]]]

\* C13: a call x.combine(y) changes only x: the source names, the source
\* bar counts, the link and the bar_count of every other piece, y and the
\* pieces combined earlier with x or y included, are the same after the
\* call as before it.
C13_ExclusiveOwnership ==
    [][ret'.op = "Piece.combine" =>
          \A q \in DOMAIN pieces \ {ret'.self} :
              PieceView(heap', pieces'[q]) = PieceView(heap, pieces[q])]_vars

----------------------------------------------------------------------------
(* The claims about the export's failures *)

\* C14: on a well-shaped grid (row 1, row 2, the header rows, a blank row,
\* the bar rows, a blank row, the comments row; the piece column and the
\* notes column at least) export_master_sheet returns a pair (success
\* flag, data), also when column B has a blank row-1 cell and when a notes
\* cell holds a non-blank line without the separator; it never ends in an
\* exception.
C14_ExportReturnsPair ==
    ret.op = "Piece.export_master_sheet" =>
        /\ ret.exc = "none"
        /\ Len(ret.value) = 2
        /\ ret.value[1] \in BOOLEAN

====
